---- MODULE Spec2Model ----
(***************************************************************************)
(* Model of the retrieval pipeline of rag.ipynb: fetching the PDFs         *)
(* (ensure_url, fetch_pdf_content), metadata trimming, text splitting      *)
(* (split_text), ingestion into the vector store                           *)
(* (add_documents_to_vector_store), similarity search and the assembly of  *)
(* the context string.                                                     *)
(*                                                                         *)
(* A Python str is modelled as a sequence of one-character strings, a      *)
(* Document as a record [page_content, metadata], a metadata dict as a     *)
(* function from its keys to its values.                                   *)
(*                                                                         *)
(* The notebook delegates to two libraries, modelled by what their calls   *)
(* do. CharacterTextSplitter: split on the separator, discard empty        *)
(* pieces, merge pieces into chunks of at most chunk_size with up to       *)
(* chunk_overlap carried over, strip each chunk. The Chroma collection: a  *)
(* list of records in insertion order; add_documents appends under fresh   *)
(* identifiers; similarity_search returns the min(k, size) nearest         *)
(* records, nearest first, as Documents. Whether their metadata carries    *)
(* the record's 'id' is left open: add_documents_to_vector_store deletes   *)
(* that key, the recorded output of the query cell shows Documents without *)
(* it. The order among records at equal distance is left open as well.     *)
(* Calls of the embedding service may fail.                                *)
(***************************************************************************)
EXTENDS Integers, Sequences, FiniteSets, TLC

VARIABLES
    \* ---- the fetching cells (step 1 of the notebook)
    urls,               \* list[str] of PDF locators
    responses,          \* what the remote end answers for each URL requested
    fetch_log,          \* the failure lines the fetching cell printed
    \* ---- the chunking cells (steps 2 and 3 of the notebook)
    pdf_data,           \* list[Document] returned by the loader
    trimmed_pdf_data,   \* list[Document] after metadata trimming
    chunk_size,         \* parameters handed to split_text
    chunk_overlap,
    separator,
    splitted_data,      \* list[Document] returned by split_text
    step,               \* position in the notebook: which cell ran last
    \* ---- the vector store and the query cells (steps 4 to 6)
    store,              \* the collection: the embedded records in insertion order
    nextId,             \* source of fresh record identifiers (uuid4 in the store)
    calls,              \* per writer, its call of add_documents_to_vector_store
    single_writer,      \* whether the callers serialize their calls
    query,              \* arguments of the last similarity_search of the query cell
    k,
    search_results,     \* what that search returned
    search_result_text  \* the context string joined from search_results

fetchVars == <<urls, responses, fetch_log>>

chunkVars == <<fetchVars, pdf_data, trimmed_pdf_data, chunk_size, chunk_overlap,
               separator, splitted_data, step>>

storeVars == <<store, nextId, calls, single_writer, query, k, search_results,
               search_result_text>>

vars == <<chunkVars, storeVars>>

----------------------------------------------------------------------------
(* Bounds of the model                                                     *)

MaxTextLen == 5
MaxChunkSize == 3
MaxStore == 3       \* records the collection may hold
MaxBatch == 2       \* documents in one ingest_data list
MaxLimit == 2       \* largest limit / k handed to a search
MaxUrls == 2        \* locators in the urls list

----------------------------------------------------------------------------
(* Strings                                                                 *)

\* characters str.strip() removes
Whitespace == {" ", "\n"}

Alphabet == {"a", "b", " ", "\n"}

RECURSIVE LStrip(_)
LStrip(s) == IF s # <<>> /\ Head(s) \in Whitespace THEN LStrip(Tail(s)) ELSE s

RECURSIVE RStrip(_)
RStrip(s) ==
    IF s # <<>> /\ s[Len(s)] \in Whitespace
    THEN RStrip(SubSeq(s, 1, Len(s) - 1))
    ELSE s

\* str.strip()
Strip(s) == RStrip(LStrip(s))

\* separator.join(docs)
RECURSIVE Join(_, _)
Join(docs, sep) ==
    IF docs = <<>> THEN <<>>
    ELSE IF Len(docs) = 1 THEN docs[1]
    ELSE docs[1] \o sep \o Join(Tail(docs), sep)

\* index of the first occurrence of the character c in s, 0 when there is none
FirstIndex(s, c) ==
    IF \E i \in 1..Len(s) : s[i] = c
    THEN CHOOSE i \in 1..Len(s) : s[i] = c /\ \A j \in 1..(i - 1) : s[j] # c
    ELSE 0

\* re.split(re.escape(sep), text) for a one-character separator: the pieces
\* between the occurrences of sep, the empty ones included
RECURSIVE ReSplit(_, _)
ReSplit(text, c) ==
    LET i == FirstIndex(text, c)
    IN  IF i = 0 THEN <<text>>
        ELSE <<SubSeq(text, 1, i - 1)>> \o ReSplit(SubSeq(text, i + 1, Len(text)), c)

\* [s for s in splits if s != ""]
RECURSIVE NonEmpty(_)
NonEmpty(splits) ==
    IF splits = <<>> THEN <<>>
    ELSE IF Head(splits) = <<>> THEN NonEmpty(Tail(splits))
    ELSE <<Head(splits)>> \o NonEmpty(Tail(splits))

----------------------------------------------------------------------------
(* CharacterTextSplitter, as split_text constructs and calls it: the       *)
(* defaults keep_separator=False, strip_whitespace=True, length_function=  *)
(* len are in force.                                                       *)

\* _split_text_with_regex(text, separator, keep_separator=False)
SplitTextWithRegex(text, sep) ==
    IF sep # <<>>
    THEN NonEmpty(ReSplit(text, sep[1]))
    ELSE NonEmpty([i \in 1..Len(text) |-> <<text[i]>>])

\* _join_docs: the joined text stripped; <<>> stands for None
JoinDocs(docs, sep) == Strip(Join(docs, sep))

\* separator_len if len(current_doc) > n else 0
SepLen(cur, sep, n) == IF Len(cur) > n THEN Len(sep) ELSE 0

\* PopWhile with the loop condition cut down to "total > chunk_overlap"
RECURSIVE PopWhileOverlapOnly(_, _, _, _, _, _)
PopWhileOverlapOnly(cur, total, len, sep, size, overlap) ==
    IF total > overlap
    THEN PopWhileOverlapOnly(Tail(cur), total - (Len(cur[1]) + SepLen(cur, sep, 1)),
                             len, sep, size, overlap)
    ELSE [cur |-> cur, total |-> total]

\* the inner while loop of _merge_splits: drop pieces from the front of
\* current_doc until what is kept fits the overlap and the next piece fits
RECURSIVE PopWhile(_, _, _, _, _, _)
PopWhile(cur, total, len, sep, size, overlap) ==
    IF \/ total > overlap
       \/ (total + len + SepLen(cur, sep, 0) > size /\ total > 0)
    THEN PopWhile(Tail(cur), total - (Len(cur[1]) + SepLen(cur, sep, 1)),
                  len, sep, size, overlap)
    ELSE [cur |-> cur, total |-> total]

\* one iteration of "for d in splits" of _merge_splits
MergeStep(st, d, sep, size, overlap) ==
    LET len    == Len(d)
        emit   == /\ st.total + len + SepLen(st.cur, sep, 0) > size
                  /\ Len(st.cur) > 0
        doc    == JoinDocs(st.cur, sep)
        docs1  == IF emit /\ doc # <<>> THEN Append(st.docs, doc) ELSE st.docs
        popped == IF emit
                  THEN PopWhile(st.cur, st.total, len, sep, size, overlap)
                  ELSE [cur |-> st.cur, total |-> st.total]
        cur2   == Append(popped.cur, d)
    IN  [docs  |-> docs1,
         cur   |-> cur2,
         total |-> popped.total + len + SepLen(cur2, sep, 1)]

RECURSIVE MergeLoop(_, _, _, _, _)
MergeLoop(st, splits, sep, size, overlap) ==
    IF splits = <<>> THEN st
    ELSE MergeLoop(MergeStep(st, Head(splits), sep, size, overlap),
                   Tail(splits), sep, size, overlap)

\* MergeSplits without the final "docs.append(doc)" after the loop
MergeSplitsNoTail(splits, sep, size, overlap) ==
    MergeLoop([docs |-> <<>>, cur |-> <<>>, total |-> 0],
              splits, sep, size, overlap).docs

\* _merge_splits(splits, separator)
MergeSplits(splits, sep, size, overlap) ==
    LET st  == MergeLoop([docs |-> <<>>, cur |-> <<>>, total |-> 0],
                         splits, sep, size, overlap)
        doc == JoinDocs(st.cur, sep)
    IN  IF doc # <<>> THEN Append(st.docs, doc) ELSE st.docs

\* CharacterTextSplitter.split_text(text)
SplitOne(text, sep, size, overlap) ==
    MergeSplits(SplitTextWithRegex(text, sep), sep, size, overlap)

\* splitter.split_documents(documents): every document split on its own, its
\* metadata copied to each of its chunks, the chunks in document order
RECURSIVE SplitDocuments(_, _, _, _)
SplitDocuments(documents, sep, size, overlap) ==
    IF documents = <<>> THEN <<>>
    ELSE LET d      == Head(documents)
             chunks == SplitOne(d.page_content, sep, size, overlap)
         IN  [i \in 1..Len(chunks) |->
                 [page_content |-> chunks[i], metadata |-> d.metadata]]
             \o SplitDocuments(Tail(documents), sep, size, overlap)

\* TextSplitter.__init__ raises ValueError for an overlap larger than the size
SplitterRejects(size, overlap) == overlap > size

\* a chunk_size of 0 or less that the overlap does not exceed: releases of the
\* library that check "chunk_size must be > 0" raise ValueError, the releases
\* before them build the splitter
SplitterMayReject(size, overlap) == size <= 0 /\ ~SplitterRejects(size, overlap)

----------------------------------------------------------------------------
(* Metadata trimming (step 2)                                              *)

important_metadata == {"title", "page", "creator", "author"}

\* {key: data.metadata.get(key) for key in important_metadata}: without the
\* "if key in data.metadata" an absent key is set, to None
TrimMetadataFillMissing(md) ==
    [key \in important_metadata |-> IF key \in DOMAIN md THEN md[key] ELSE "None"]

\* {key: data.metadata.get(key) for key in important_metadata if key in data.metadata}
TrimMetadata(md) ==
    [key \in (important_metadata \cap DOMAIN md) |-> md[key]]

TrimDocument(data) ==
    [page_content |-> data.page_content, metadata |-> TrimMetadata(data.metadata)]

----------------------------------------------------------------------------
(* The embedding function and the vector store                             *)

\* number of occurrences of the character c in s
RECURSIVE CountChar(_, _)
CountChar(s, c) ==
    IF s = <<>> THEN 0
    ELSE (IF Head(s) = c THEN 1 ELSE 0) + CountChar(Tail(s), c)

\* embedding_function: a fixed function from a text to a vector of fixed
\* dimension; equal texts have equal vectors
Embed(text) == <<CountChar(text, "a"), CountChar(text, "b")>>

\* the collection's distance between two vectors (squared L2)
Distance(u, v) ==
    (u[1] - v[1]) * (u[1] - v[1]) + (u[2] - v[2]) * (u[2] - v[2])

\* the Document a search returns for a stored record as
\* add_documents_to_vector_store expects it: the record's text, and its
\* metadata carrying the record's identifier under the key 'id'
AsDocument(rec) ==
    [page_content |-> rec.page_content,
     metadata     |-> ("id" :> rec.id) @@ rec.metadata]

\* the Document a search returns for a stored record as the query cell's
\* recorded output shows it: the record's text and its metadata, no 'id' in it
AsDocumentNoId(rec) ==
    [page_content |-> rec.page_content, metadata |-> rec.metadata]

\* the two forms of the Documents of a search; which one a run meets is the
\* installed store wrapper's choice
DocumentForms == {"id in metadata", "no id in metadata"}

AsDocumentIn(form, rec) ==
    IF form = "id in metadata" THEN AsDocument(rec) ELSE AsDocumentNoId(rec)

\* the rankings a search may return: n distinct records of the collection, by
\* non-decreasing distance to the query vector, no record left out being closer
\* than one that is returned; the order among records at equal distance is the
\* index's choice
Rankings(st, qv, n) ==
    {r \in [1..n -> 1..Len(st)] :
        /\ \A i, j \in 1..n : i < j =>
              /\ r[i] # r[j]
              /\ Distance(st[r[i]].vector, qv) <= Distance(st[r[j]].vector, qv)
        /\ \A i \in 1..n, o \in 1..Len(st) :
              (\A j \in 1..n : r[j] # o) =>
                  Distance(st[r[i]].vector, qv) <= Distance(st[o].vector, qv)}

Min(a, b) == IF a < b THEN a ELSE b

\* SimilaritySearch returning the k records farthest from the query first
SimilaritySearchFarthest(st, q, kk) ==
    LET n == Min(kk, Len(st))
    IN  {[i \in 1..n |-> AsDocumentIn(rf[2], st[rf[1][Len(st) + 1 - i]])] :
            rf \in Rankings(st, Embed(q), Len(st)) \X DocumentForms}

\* vector_store.similarity_search(q, k=kk): the possible results, each the
\* Documents of the min(kk, size) nearest records, nearest first
SimilaritySearch(st, q, kk) ==
    LET n == Min(kk, Len(st))
    IN  {[i \in 1..n |-> AsDocumentIn(rf[2], st[rf[1][i]])] :
            rf \in Rankings(st, Embed(q), n) \X DocumentForms}

\* AddDocuments giving every record of one call the same identifier
AddDocumentsOneId(st, docs, fresh) ==
    st \o [i \in 1..Len(docs) |->
              [id           |-> fresh,
               page_content |-> docs[i].page_content,
               metadata     |-> docs[i].metadata,
               vector       |-> Embed(docs[i].page_content)]]

\* vector_store.add_documents(docs): every document embedded and appended under
\* a fresh identifier, in the order given
AddDocuments(st, docs, fresh) ==
    st \o [i \in 1..Len(docs) |->
              [id           |-> fresh + i - 1,
               page_content |-> docs[i].page_content,
               metadata     |-> docs[i].metadata,
               vector       |-> Embed(docs[i].page_content)]]

----------------------------------------------------------------------------
(* add_documents_to_vector_store                                           *)

\* StripId that leaves the document as the search returned it
StripIdKept(doc) == doc

\* "del doc.metadata['id']" on a copy of a scanned document
StripId(doc) ==
    [page_content |-> doc.page_content,
     metadata     |-> [key \in (DOMAIN doc.metadata) \ {"id"} |-> doc.metadata[key]]]

\* "del doc.metadata['id']" raises KeyError on a scanned document whose
\* metadata has no 'id'
StripRaises(stored_data) ==
    \E i \in 1..Len(stored_data) : "id" \notin DOMAIN stored_data[i].metadata

\* _stored_documents_without_id, from the documents the scan returned
StoredDocumentsWithoutId(stored_data) ==
    [i \in 1..Len(stored_data) |-> StripId(stored_data[i])]

\* NotIn comparing the text alone
NotInByContent(doc, docs) ==
    \A i \in 1..Len(docs) : docs[i].page_content # doc.page_content

\* "doc not in _stored_documents_without_id": Document equality, text and metadata
NotIn(doc, docs) == \A i \in 1..Len(docs) : docs[i] # doc

\* DocumentsToAdd without the filter: every document of ingest_data
DocumentsToAddAll(ingest_data, stored) == ingest_data

\* documents_to_add: the documents of ingest_data not among stored, in order
RECURSIVE DocumentsToAdd(_, _)
DocumentsToAdd(ingest_data, stored) ==
    IF ingest_data = <<>> THEN <<>>
    ELSE (IF NotIn(Head(ingest_data), stored) THEN <<Head(ingest_data)>> ELSE <<>>)
         \o DocumentsToAdd(Tail(ingest_data), stored)

\* AddToStore writing the stripped documents back over the records scanned
AddToStoreInPlace(st, fresh, ingest_data, stored_data) ==
    LET to_add == DocumentsToAdd(ingest_data, StoredDocumentsWithoutId(stored_data))
        ids    == {stored_data[i].metadata["id"] : i \in 1..Len(stored_data)}
        wiped  == [i \in 1..Len(st) |->
                     IF st[i].id \in ids THEN [st[i] EXCEPT !.id = 0] ELSE st[i]]
    IN  IF to_add # <<>> THEN AddDocuments(wiped, to_add, fresh) ELSE wiped

\* the collection after add_documents_to_vector_store(vector_store, ingest_data,
\* allow_duplicates, limit), stored_data being what the duplicate scan returned
\* (the empty list when allow_duplicates is true or ingest_data is empty)
AddToStore(st, fresh, ingest_data, stored_data) ==
    LET to_add == DocumentsToAdd(ingest_data, StoredDocumentsWithoutId(stored_data))
    IN  IF to_add # <<>> THEN AddDocuments(st, to_add, fresh) ELSE st

\* the name under which a failed call of the embedding gateway reaches the
\* caller of add_documents_to_vector_store, which catches nothing
GatewayError == "EmbeddingServiceUnavailable"

\* AddOutcome catching the gateway's failure: the documents are skipped and the
\* call returns
AddOutcomeSkipping(st, fresh, ingest_data, stored_data, up) ==
    LET to_add == DocumentsToAdd(ingest_data, StoredDocumentsWithoutId(stored_data))
    IN  [pc        |-> "done",
         error     |-> "none",
         store     |-> IF up THEN AddToStore(st, fresh, ingest_data, stored_data) ELSE st,
         add_calls |-> IF to_add # <<>> THEN 1 ELSE 0]

\* the filter and the add of add_documents_to_vector_store, the embedding
\* gateway being up or not when add_documents embeds the documents: how the
\* call ends, the collection after it, the calls of add_documents made
AddOutcome(st, fresh, ingest_data, stored_data, up) ==
    LET to_add == DocumentsToAdd(ingest_data, StoredDocumentsWithoutId(stored_data))
    IN  IF to_add # <<>> /\ ~up
        THEN [pc |-> "raised", error |-> GatewayError, store |-> st, add_calls |-> 1]
        ELSE [pc        |-> "done",
              error     |-> "none",
              store     |-> AddToStore(st, fresh, ingest_data, stored_data),
              add_calls |-> IF to_add # <<>> THEN 1 ELSE 0]

\* whether a call makes the duplicate scan
Scans(ingest_data, allow_duplicates) == ingest_data # <<>> /\ ~allow_duplicates

\* what "vector_store.similarity_search('', k=limit)" may return to a call
ScanResults(st, ingest_data, allow_duplicates, limit) ==
    IF ingest_data = <<>> \/ allow_duplicates
    THEN {<<>>}
    ELSE SimilaritySearch(st, <<>>, limit)

----------------------------------------------------------------------------
(* The store and query cells as a state machine                            *)

\* the chunks offered for ingestion: (content, metadata) pairs, two of them
\* with the same text on different pages
Chunks ==
    {[page_content |-> <<"a">>,      metadata |-> ("page" :> 0)],
     [page_content |-> <<"a">>,      metadata |-> ("page" :> 1)],
     [page_content |-> <<"a", "b">>, metadata |-> ("page" :> 0)]}

RECURSIVE SeqsUpTo(_, _)
SeqsUpTo(S, n) ==
    IF n = 0 THEN {<<>>}
    ELSE LET shorter == SeqsUpTo(S, n - 1)
         IN  shorter \cup {Append(t, c) : t \in {u \in shorter : Len(u) = n - 1},
                                          c \in S}

Batches == SeqsUpTo(Chunks, MaxBatch)

Queries == {<<>>, <<"a">>}

\* limit=None
NoLimit == -1

\* the (allow_duplicates, limit) pairs of a call; limit is read only when
\* allow_duplicates is false
Modes ==
    {<<TRUE, NoLimit>>} \cup {<<FALSE, l>> : l \in {NoLimit} \cup 0..MaxLimit}

\* a call of add_documents_to_vector_store: where it stands, its arguments, its
\* local stored_data, the size of the store when it read it, and whether it is
\* the same call made a second time (run = 2, first_before the size of the store
\* before the first); the exception it ended with, the calls it made of
\* add_documents and of the embedding gateway, and whether the gateway failed
Idle ==
    [pc |-> "idle", ingest_data |-> <<>>, allow_duplicates |-> TRUE,
     limit |-> NoLimit, before |-> 0, stored_data |-> <<>>, run |-> 0,
     first_before |-> 0, first_failed |-> FALSE, error |-> "none",
     add_calls |-> 0, embed_calls |-> 0, embed_failed |-> FALSE]

Writers == DOMAIN calls

\* documents that calls under way may still add
Pending(w) ==
    IF calls[w].pc \in {"called", "scanned"} THEN Len(calls[w].ingest_data) ELSE 0

RECURSIVE SumPending(_)
SumPending(W) ==
    IF W = {} THEN 0
    ELSE LET w == CHOOSE x \in W : TRUE IN Pending(w) + SumPending(W \ {w})

\* "vector_store.similarity_search('', k=limit)" raises for a k that is not a
\* positive integer
ScanRaises(ingest_data, allow_duplicates, limit) ==
    /\ ingest_data # <<>>
    /\ ~allow_duplicates
    /\ limit < 1

\* "\n".join(result.page_content for result in search_results), with a
\* separator other than the newline
SearchResultTextSpaced(results) ==
    Join([i \in 1..Len(results) |-> results[i].page_content], <<" ">>)

\* "\n".join(result.page_content for result in search_results)
SearchResultText(results) ==
    Join([i \in 1..Len(results) |-> results[i].page_content], <<"\n">>)

InitStore ==
    /\ store = <<>>
    /\ nextId = 1
    /\ query = <<>>
    /\ k = 0
    /\ search_results = <<>>
    /\ search_result_text = <<>>

\* writer w calls add_documents_to_vector_store; under the single-writer
\* discipline only when no other call is under way
Call(w, batches, modes) ==
    /\ calls[w].pc = "idle"
    /\ single_writer => \A o \in Writers : calls[o].pc = "idle"
    /\ \E ingest_data \in batches, mode \in modes :
          /\ Len(store) + SumPending(Writers) + Len(ingest_data) <= MaxStore
          /\ calls' = [calls EXCEPT ![w] =
                          [Idle EXCEPT !.pc = "called",
                                       !.ingest_data = ingest_data,
                                       !.allow_duplicates = mode[1],
                                       !.limit = mode[2],
                                       !.run = 1]]
    /\ UNCHANGED <<store, nextId, single_writer, query, k, search_results,
                   search_result_text>>

\* the whole of add_documents_to_vector_store, run by the one writer of the
\* notebook: the scan, the filter and the add
Run(w) ==
    /\ calls[w].pc = "called"
    /\ \E scan_up, add_up \in BOOLEAN :
         LET c     == calls[w]
             scans == IF Scans(c.ingest_data, c.allow_duplicates) THEN 1 ELSE 0
         IN  IF scans = 1 /\ ~scan_up
             THEN /\ calls' = [calls EXCEPT ![w].pc = "raised",
                                            ![w].error = GatewayError,
                                            ![w].before = Len(store),
                                            ![w].embed_calls = 1,
                                            ![w].embed_failed = TRUE]
                  /\ UNCHANGED <<store, nextId>>
             ELSE IF ScanRaises(c.ingest_data, c.allow_duplicates, c.limit)
             THEN /\ calls' = [calls EXCEPT ![w].pc = "raised",
                                            ![w].error = "ValueError",
                                            ![w].before = Len(store),
                                            ![w].embed_calls = 1]
                  /\ UNCHANGED <<store, nextId>>
             ELSE \E stored_data \in ScanResults(store, c.ingest_data,
                                                 c.allow_duplicates, c.limit) :
                    LET o == IF StripRaises(stored_data)
                             THEN [pc |-> "raised", error |-> "KeyError",
                                   store |-> store, add_calls |-> 0]
                             ELSE AddOutcome(store, nextId, c.ingest_data,
                                             stored_data, add_up)
                    IN  /\ store' = o.store
                        /\ nextId' = nextId + (Len(o.store) - Len(store))
                        /\ calls' = [calls EXCEPT
                                        ![w].pc = o.pc,
                                        ![w].error = o.error,
                                        ![w].before = Len(store),
                                        ![w].stored_data = stored_data,
                                        ![w].add_calls = o.add_calls,
                                        ![w].embed_calls = scans + o.add_calls,
                                        ![w].embed_failed = (o.add_calls = 1 /\ ~add_up)]
    /\ UNCHANGED <<single_writer, query, k, search_results, search_result_text>>

\* the same call made once more (the ingestion cell run again), whether the
\* first returned or raised
Rerun(w) ==
    /\ calls[w].pc \in {"done", "raised"}
    /\ calls[w].run = 1
    /\ Len(store) + Len(calls[w].ingest_data) <= MaxStore
    /\ calls' = [calls EXCEPT ![w] =
                    [Idle EXCEPT !.pc = "called",
                                 !.ingest_data = calls[w].ingest_data,
                                 !.allow_duplicates = calls[w].allow_duplicates,
                                 !.limit = calls[w].limit,
                                 !.run = 2,
                                 !.first_before = calls[w].before,
                                 !.first_failed = calls[w].embed_failed]]
    /\ UNCHANGED <<store, nextId, single_writer, query, k, search_results,
                   search_result_text>>

\* the call returns or its exception reaches the caller: its frame is gone
Return(w) ==
    /\ calls[w].pc \in {"done", "raised"}
    /\ calls' = [calls EXCEPT ![w] = Idle]
    /\ UNCHANGED <<store, nextId, single_writer, query, k, search_results,
                   search_result_text>>

\* first half of add_documents_to_vector_store when calls run concurrently: up
\* to and including the duplicate scan, which reads the store
Scan(w) ==
    /\ calls[w].pc = "called"
    /\ \E scan_up \in BOOLEAN :
         LET c     == calls[w]
             scans == IF Scans(c.ingest_data, c.allow_duplicates) THEN 1 ELSE 0
         IN  IF scans = 1 /\ ~scan_up
             THEN calls' = [calls EXCEPT ![w].pc = "raised",
                                         ![w].error = GatewayError,
                                         ![w].before = Len(store),
                                         ![w].embed_calls = 1,
                                         ![w].embed_failed = TRUE]
             ELSE IF ScanRaises(c.ingest_data, c.allow_duplicates, c.limit)
             THEN calls' = [calls EXCEPT ![w].pc = "raised",
                                         ![w].error = "ValueError",
                                         ![w].before = Len(store),
                                         ![w].embed_calls = 1]
             ELSE \E stored_data \in ScanResults(store, c.ingest_data,
                                                 c.allow_duplicates, c.limit) :
                    calls' = [calls EXCEPT
                                ![w].pc = IF StripRaises(stored_data)
                                          THEN "raised" ELSE "scanned",
                                ![w].error = IF StripRaises(stored_data)
                                             THEN "KeyError" ELSE "none",
                                ![w].before = Len(store),
                                ![w].stored_data = stored_data,
                                ![w].embed_calls = scans]
    /\ UNCHANGED <<store, nextId, single_writer, query, k, search_results,
                   search_result_text>>

\* second half: the filter against stored_data and the add, which writes the
\* store as it is by then
Add(w) ==
    /\ calls[w].pc = "scanned"
    /\ \E add_up \in BOOLEAN :
         LET c == calls[w]
             o == AddOutcome(store, nextId, c.ingest_data, c.stored_data, add_up)
         IN  /\ store' = o.store
             /\ nextId' = nextId + (Len(o.store) - Len(store))
             /\ calls' = [calls EXCEPT
                             ![w].pc = o.pc,
                             ![w].error = o.error,
                             ![w].add_calls = o.add_calls,
                             ![w].embed_calls = c.embed_calls + o.add_calls,
                             ![w].embed_failed = (o.add_calls = 1 /\ ~add_up)]
    /\ UNCHANGED <<single_writer, query, k, search_results, search_result_text>>

\* add_documents_to_vector_store run from call to return in one step; a call
\* that raises leaves the collection as it was
Ingest ==
    \E ingest_data \in Batches, mode \in Modes :
      /\ Len(store) + Len(ingest_data) <= MaxStore
      /\ ~ScanRaises(ingest_data, mode[1], mode[2])
      /\ \E stored_data \in ScanResults(store, ingest_data, mode[1], mode[2]) :
            LET after == AddToStore(store, nextId, ingest_data, stored_data)
            IN  /\ ~StripRaises(stored_data)
                /\ store' = after
                /\ nextId' = nextId + (Len(after) - Len(store))
      /\ UNCHANGED <<calls, single_writer, query, k, search_results,
                     search_result_text>>

\* the query cell and the parse cell: similarity_search(query, k), then the
\* contents of the results joined into the context string
Retrieve ==
    \E q \in Queries, kk \in 1..MaxLimit :
      \E results \in SimilaritySearch(store, q, kk) :
        /\ query' = q
        /\ k' = kk
        /\ search_results' = results
        /\ search_result_text' = SearchResultText(results)
        /\ UNCHANGED <<store, nextId, calls, single_writer>>

----------------------------------------------------------------------------
(* The chunking cells as a state machine                                   *)

RECURSIVE TextsUpTo(_)
TextsUpTo(n) ==
    IF n = 0 THEN {<<>>}
    ELSE LET shorter == TextsUpTo(n - 1)
         IN  shorter \cup {Append(t, c) : t \in {u \in shorter : Len(u) = n - 1},
                                          c \in Alphabet}

Texts == TextsUpTo(MaxTextLen)

Separators == {<<" ">>, <<"\n">>, <<>>}

\* the fetching cells left out: the documents are given
NoFetch ==
    /\ urls = <<>>
    /\ responses = <<>>
    /\ fetch_log = <<>>

PageMeta(p) ==
    ("source" :> "f") @@ ("page" :> p) @@ ("title" :> "") @@ ("creator" :> "Writer")

\* the metadata of a page of a PDF that names its author but neither a title
\* nor a creator
AuthorMeta(p) ==
    ("source" :> "f") @@ ("page" :> p) @@ ("author" :> "A") @@ ("format" :> "PDF 1.4")

\* a second page some runs carry after the first
SecondPage == [page_content |-> <<"b", " ", "a">>, metadata |-> AuthorMeta(1)]

InitSplit ==
    /\ NoFetch
    /\ \E t \in Texts, more \in BOOLEAN :
          pdf_data = <<[page_content |-> t, metadata |-> PageMeta(0)]>>
                     \o (IF more THEN <<SecondPage>> ELSE <<>>)
    /\ trimmed_pdf_data = <<>>
    /\ chunk_size \in 0..MaxChunkSize
    /\ chunk_overlap \in 0..MaxChunkSize
    /\ separator \in Separators
    /\ splitted_data = <<>>
    /\ step = "fetched"
    /\ InitStore
    /\ calls = [w \in {1} |-> Idle]
    /\ single_writer = TRUE

\* cell 8: trimmed_pdf_data built from pdf_data
Trim ==
    /\ step = "fetched"
    /\ trimmed_pdf_data' = [i \in 1..Len(pdf_data) |-> TrimDocument(pdf_data[i])]
    /\ step' = "trimmed"
    /\ UNCHANGED <<pdf_data, chunk_size, chunk_overlap, separator, splitted_data>>
    /\ UNCHANGED <<fetchVars, storeVars>>

\* cell 11: splitted_data = split_text(trimmed_pdf_data, chunk_overlap, chunk_size, separator)
SplitText ==
    /\ step = "trimmed"
    /\ ~SplitterRejects(chunk_size, chunk_overlap)
    /\ splitted_data' = SplitDocuments(trimmed_pdf_data, separator, chunk_size, chunk_overlap)
    /\ step' = "split"
    /\ UNCHANGED <<pdf_data, trimmed_pdf_data, chunk_size, chunk_overlap, separator>>
    /\ UNCHANGED <<fetchVars, storeVars>>

\* cell 11 when the splitter's constructor raises: no chunks are produced
SplitTextRaises ==
    /\ step = "trimmed"
    /\ \/ SplitterRejects(chunk_size, chunk_overlap)
       \/ SplitterMayReject(chunk_size, chunk_overlap)
    /\ step' = "split_error"
    /\ UNCHANGED <<pdf_data, trimmed_pdf_data, chunk_size, chunk_overlap, separator,
                   splitted_data>>
    /\ UNCHANGED <<fetchVars, storeVars>>

NextSplit == Trim \/ SplitText \/ SplitTextRaises

SpecSplit == InitSplit /\ [][NextSplit]_vars

----------------------------------------------------------------------------
(* The fetching cells (step 1)                                             *)
(*                                                                         *)
(* A locator is a sequence of tokens: "h" stands for a scheme ("http://"   *)
(* or "https://"), "d" for a character of the class [a-zA-Z0-9.-], "/" for *)
(* a slash, " " for a blank.                                               *)

Scheme == "h"

\* string.startswith(("http://", "https://"))
StartsWithScheme(string) == string # <<>> /\ Head(string) = Scheme

\* number of characters of the class [a-zA-Z0-9.-] that string starts with
RECURSIVE DomainLen(_)
DomainLen(string) ==
    IF string # <<>> /\ Head(string) = "d" THEN 1 + DomainLen(Tail(string)) ELSE 0

\* url_regex.match(string): an optional scheme, a domain of one character or
\* more, then nothing more or a slash followed by characters that are not
\* whitespace
UrlRegexMatches(string) ==
    LET rest == IF StartsWithScheme(string) THEN Tail(string) ELSE string
        n    == DomainLen(rest)
    IN  /\ n >= 1
        /\ \/ n = Len(rest)
           \/ /\ rest[n + 1] = "/"
              /\ \A i \in (n + 2)..Len(rest) : rest[i] \notin Whitespace

\* ensure_url(string): the string, "http://" put before it when it has no
\* scheme, or ValueError when the regex does not match
EnsureUrl(string) ==
    LET url == IF StartsWithScheme(string) THEN string ELSE <<Scheme>> \o string
    IN  [raised |-> ~UrlRegexMatches(url), url |-> url]

\* [url.strip() for url in urls if url.strip()]
StrippedUrls(us) ==
    SelectSeq([i \in 1..Len(us) |-> Strip(us[i])], LAMBDA u : u # <<>>)

\* the pages PyMuPDFLoader reads from the PDF behind url
Pages(url) ==
    <<[page_content |-> <<"a">>, metadata |-> ("source" :> url) @@ ("page" :> 0)]>>

\* what a request for a URL can meet: a PDF, a failure of the request
\* (requests.exceptions.RequestException from get or raise_for_status), or a
\* response that is no PDF, on which pdf_loader.load() raises
Responses == {"pdf", "request_error", "not_pdf"}

\* the loop of fetch_pdf_content over the ensured URLs: a RequestException is
\* printed and the URL skipped, any other exception leaves the function
RECURSIVE FetchLoop(_, _, _, _)
FetchLoop(us, resp, data, log) ==
    IF us = <<>> THEN [raised |-> FALSE, data |-> data, log |-> log]
    ELSE LET url == Head(us)
         IN  CASE resp[url] = "pdf" ->
                    FetchLoop(Tail(us), resp, data \o Pages(url), log)
               [] resp[url] = "request_error" ->
                    FetchLoop(Tail(us), resp, data,
                              Append(log, [line |-> "Failed to fetch URL", url |-> url]))
               [] resp[url] = "not_pdf" ->
                    [raised |-> TRUE, data |-> <<>>,
                     log |-> Append(log, [line |-> "Failed to fetch PDF content",
                                          url |-> <<>>])]

\* fetch_pdf_content(urls) as the fetching cell calls it: every URL is ensured
\* before the first request, outside the try of the loop, and the cell prints
\* the exception that leaves the function
FetchPdfContent(us, resp) ==
    LET ensured == [i \in 1..Len(StrippedUrls(us)) |-> EnsureUrl(StrippedUrls(us)[i])]
        invalid == {i \in 1..Len(ensured) : ensured[i].raised}
    IN  IF invalid # {}
        THEN LET first == CHOOSE i \in invalid : \A j \in invalid : i <= j
             IN  [raised |-> TRUE, data |-> <<>>,
                  log |-> <<[line |-> "Failed to fetch PDF content",
                             url |-> ensured[first].url]>>]
        ELSE FetchLoop([i \in 1..Len(ensured) |-> ensured[i].url], resp, <<>>, <<>>)

\* the locators of the runs: with a scheme, without one, padded with blanks,
\* with a blank inside, blank
UrlStrings ==
    {<<"h", "d", "/">>, <<"d">>, <<" ", "d", "/", " ">>, <<"d", " ", "d">>, <<" ">>}

\* the URLs a run can request
RequestedUrls ==
    {EnsureUrl(Strip(u)).url :
        u \in {v \in UrlStrings : Strip(v) # <<>> /\ ~EnsureUrl(Strip(v)).raised}}

InitFetch ==
    /\ urls \in SeqsUpTo(UrlStrings, MaxUrls)
    /\ responses \in [RequestedUrls -> Responses]
    /\ fetch_log = <<>>
    /\ pdf_data = <<>>
    /\ trimmed_pdf_data = <<>>
    /\ chunk_size = 1
    /\ chunk_overlap = 0
    /\ separator = <<" ">>
    /\ splitted_data = <<>>
    /\ step = "urls"
    /\ InitStore
    /\ calls = [w \in {1} |-> Idle]
    /\ single_writer = TRUE

\* the fetching cell when fetch_pdf_content returns
Fetch ==
    /\ step = "urls"
    /\ LET r == FetchPdfContent(urls, responses)
       IN  /\ ~r.raised
           /\ pdf_data' = r.data
           /\ fetch_log' = r.log
    /\ step' = "fetched"
    /\ UNCHANGED <<urls, responses, trimmed_pdf_data, chunk_size, chunk_overlap,
                   separator, splitted_data>>
    /\ UNCHANGED storeVars

\* the fetching cell when an exception leaves fetch_pdf_content: the cell
\* prints it and pdf_data stays the empty list it was set to
FetchRaises ==
    /\ step = "urls"
    /\ LET r == FetchPdfContent(urls, responses)
       IN  /\ r.raised
           /\ pdf_data' = <<>>
           /\ fetch_log' = r.log
    /\ step' = "fetch_error"
    /\ UNCHANGED <<urls, responses, trimmed_pdf_data, chunk_size, chunk_overlap,
                   separator, splitted_data>>
    /\ UNCHANGED storeVars

NextFetch == Fetch \/ FetchRaises

SpecFetch == InitFetch /\ [][NextFetch]_vars

----------------------------------------------------------------------------
(* The notebook past the chunking cells: the chunks are given, the store   *)
(* is built and queried                                                    *)

InitChunked ==
    /\ NoFetch
    /\ pdf_data = <<>>
    /\ trimmed_pdf_data = <<>>
    /\ chunk_size = 1
    /\ chunk_overlap = 0
    /\ separator = <<" ">>
    /\ splitted_data = <<>>
    /\ step = "split"

\* the notebook: one writer, whose calls run from start to end
Init ==
    /\ InitChunked
    /\ InitStore
    /\ calls = [w \in {1} |-> Idle]
    /\ single_writer = TRUE

Next ==
    \/ Call(1, Batches, Modes) /\ UNCHANGED chunkVars
    \/ Run(1) /\ UNCHANGED chunkVars
    \/ Rerun(1) /\ UNCHANGED chunkVars
    \/ Return(1) /\ UNCHANGED chunkVars

Spec == Init /\ [][Next]_vars

\* the store built and queried
NextQuery ==
    \/ Ingest /\ UNCHANGED chunkVars
    \/ Retrieve /\ UNCHANGED chunkVars

SpecQuery == Init /\ [][NextQuery]_vars

\* two writers ingesting one chunk per call without duplicates allowed, either
\* serialized through a single writer at a time or running concurrently
OneChunkBatches == {<<c>> : c \in Chunks}

\* a limit that covers the store whatever its size
NoDuplicateModes == {<<FALSE, MaxStore>>}

InitWriters ==
    /\ InitChunked
    /\ InitStore
    /\ calls = [w \in {1, 2} |-> Idle]
    /\ single_writer \in BOOLEAN

NextWriters ==
    \E w \in {1, 2} :
        \/ Call(w, OneChunkBatches, NoDuplicateModes) /\ UNCHANGED chunkVars
        \/ Scan(w) /\ UNCHANGED chunkVars
        \/ Add(w) /\ UNCHANGED chunkVars
        \/ Return(w) /\ UNCHANGED chunkVars

SpecWriters == InitWriters /\ [][NextWriters]_vars

----------------------------------------------------------------------------
(* Properties of the vector store                                          *)

\* the (content, metadata) pair of a stored record
Pair(rec) == [page_content |-> rec.page_content, metadata |-> rec.metadata]

\* number of records of st that hold the pair p
Copies(p, st) == Cardinality({i \in 1..Len(st) : Pair(st[i]) = p})

\* the identifiers the duplicate scan of call c returned
ScannedIds(c) == {c.stored_data[i].metadata["id"] : i \in 1..Len(c.stored_data)}

\* the pairs of the records call c scanned, read from the store itself
DedupSet(c) ==
    {Pair(store[j]) : j \in {i \in 1..c.before : store[i].id \in ScannedIds(c)}}

\* the pairs of the records call c appended
Added(c) == [i \in 1..(Len(store) - c.before) |-> Pair(store[c.before + i])]

\* a call is over and the embedding gateway did not fail in it
Ended(c) == c.pc \in {"done", "raised"} /\ ~c.embed_failed

\* C1: a call that inserts one (content, metadata) pair with
\* allow_duplicates=false, made twice, the limit covering the store each time
\* and the pair absent before the first call, leaves exactly one record with
\* that pair.
C1_InsertTwiceOneRecord ==
    LET c == calls[1]
    IN  ( /\ Ended(c) /\ c.run = 2 /\ ~c.first_failed
          /\ ~c.allow_duplicates
          /\ Len(c.ingest_data) = 1
          /\ c.limit >= 1
          /\ c.limit >= c.first_before /\ c.limit >= c.before
          /\ Copies(c.ingest_data[1], SubSeq(store, 1, c.first_before)) = 0 )
        => Copies(c.ingest_data[1], store) = 1

\* what holds of the two calls when both return: exactly one record with the
\* pair
C1_InsertTwiceStoresOnce ==
    LET c == calls[1]
    IN  ( /\ c.pc = "done" /\ c.run = 2
          /\ ~c.allow_duplicates
          /\ Len(c.ingest_data) = 1
          /\ c.limit >= c.first_before /\ c.limit >= c.before
          /\ Copies(c.ingest_data[1], SubSeq(store, 1, c.first_before)) = 0 )
        => Copies(c.ingest_data[1], store) = 1

\* the pair inserted twice into a store that already held another record
C1_Witness ==
    LET c == calls[1]
    IN  /\ c.pc = "done" /\ c.run = 2
        /\ ~c.allow_duplicates
        /\ Len(c.ingest_data) = 1
        /\ c.limit >= c.first_before /\ c.limit >= c.before
        /\ Copies(c.ingest_data[1], SubSeq(store, 1, c.first_before)) = 0
        /\ c.first_before >= 1
        /\ c.before = c.first_before + 1

\* C2: a call with allow_duplicates=true scans nothing and appends every
\* document of the batch, in order, so the store grows by the size of the
\* batch; every record of the store has an identifier of its own.
C2_AllowDuplicatesAppendsAll ==
    LET c == calls[1]
    IN  (c.pc = "done" /\ c.allow_duplicates) =>
            /\ c.stored_data = <<>>
            /\ Len(store) = c.before + Len(c.ingest_data)
            /\ Added(c) = c.ingest_data
            /\ \A i, j \in 1..Len(store) : i # j => store[i].id # store[j].id

\* one pair inserted twice with allow_duplicates=true, by the same call made
\* twice: two records or more with that pair, every record its own identifier
C2_Witness ==
    LET c == calls[1]
    IN  /\ c.pc = "done" /\ c.allow_duplicates /\ c.run = 2
        /\ c.ingest_data # <<>>
        /\ Copies(c.ingest_data[1], store) >= 2
        /\ Cardinality({store[i].id : i \in 1..Len(store)}) = Len(store)

\* C4: with allow_duplicates=false the documents a call appends are exactly the
\* documents of its batch, in order, whose (content, metadata) pair equals no
\* scanned record's pair, the scanned records taken without their identifiers;
\* the scan covers min(limit, size) records, and a candidate equal to a record
\* outside them is appended.
C4_InsertedUnlessScanned ==
    LET c == calls[1]
    IN  (Ended(c) /\ ~c.allow_duplicates /\ c.ingest_data # <<>> /\ c.limit >= 1) =>
            /\ c.pc = "done"
            /\ Cardinality(ScannedIds(c)) = Min(c.limit, c.before)
            /\ ScannedIds(c) \subseteq {store[i].id : i \in 1..c.before}
            /\ Added(c) = SelectSeq(c.ingest_data, LAMBDA d : d \notin DedupSet(c))

\* what holds of a call that returns: it appended the documents of its batch
\* that equal no scanned record, and the scan covered min(limit, size) records
C4_FilterAgainstScanned ==
    LET c == calls[1]
    IN  (c.pc = "done" /\ ~c.allow_duplicates /\ c.ingest_data # <<>>) =>
            /\ Cardinality(ScannedIds(c)) = Min(c.limit, c.before)
            /\ ScannedIds(c) \subseteq {store[i].id : i \in 1..c.before}
            /\ Added(c) = SelectSeq(c.ingest_data, LAMBDA d : d \notin DedupSet(c))

\* a candidate equal to a stored record that the scan, which returned another
\* record, did not return: the candidate is stored a second time
C4_Witness ==
    LET c == calls[1]
    IN  /\ c.pc = "done" /\ ~c.allow_duplicates
        /\ c.stored_data # <<>>
        /\ \E i \in 1..Len(c.ingest_data) :
              /\ c.ingest_data[i] \notin DedupSet(c)
              /\ Copies(c.ingest_data[i], SubSeq(store, 1, c.before)) = 1
              /\ Copies(c.ingest_data[i], store) = 2

\* no two records of the store hold the same (content, metadata) pair
NoDuplicatePairs ==
    \A i, j \in 1..Len(store) : i # j => Pair(store[i]) # Pair(store[j])

\* C3: two writers insert chunks with allow_duplicates=false and a limit that
\* covers the store. When their calls are serialized through a single writer no
\* state with two records of the same pair is reachable. (That the calls run
\* concurrently reach such a state is C3_Witness.)
C3_SerializedNoDuplicate == single_writer => NoDuplicatePairs

\* concurrent calls: both writers inserted the same chunk, both scans ran before
\* either add and found no such record, both adds went through
C3_Witness ==
    /\ ~single_writer
    /\ calls[1].pc = "done" /\ calls[2].pc = "done"
    /\ calls[1].ingest_data = calls[2].ingest_data
    /\ calls[1].before = calls[2].before
    /\ calls[1].ingest_data[1] \notin DedupSet(calls[1])
    /\ calls[2].ingest_data[1] \notin DedupSet(calls[2])
    /\ Copies(calls[1].ingest_data[1], store) = 2

\* C5: no step changes or removes a record of the store: every record keeps its
\* identifier, content, metadata and vector, and the store only grows at its end.
C5_RecordsImmutable ==
    [][/\ Len(store') >= Len(store)
       /\ \A i \in 1..Len(store) : store'[i] = store[i]]_vars

\* a search returned a record, the store was added to afterwards, and the
\* record is still there as it was returned
C5_Witness ==
    /\ k = MaxLimit
    /\ Len(search_results) = 1
    /\ Len(store) = MaxStore
    /\ AsDocument(store[1]) = search_results[1]
    /\ \E i \in 2..Len(store) : Pair(store[i]) = Pair(store[1])

----------------------------------------------------------------------------
(* Properties of the search and of the context string                      *)

\* the records of the store a returned document stands for
RecordsOf(doc) ==
    {j \in 1..Len(store) : \E form \in DocumentForms : AsDocumentIn(form, store[j]) = doc}

\* distance of a returned document to the query, from the vector stored for it
ResultDistance(doc) ==
    LET j == CHOOSE x \in RecordsOf(doc) : TRUE
    IN  Distance(store[j].vector, Embed(query))

\* C6: the last search(query, k) returned at most k results and no more than
\* there are records, each of them a record of the store, in order of
\* non-decreasing distance to the query vector.
C6_SearchBoundedAndOrdered ==
    k > 0 =>
        /\ Len(search_results) <= k
        /\ Len(search_results) <= Len(store)
        /\ \A i \in 1..Len(search_results) : RecordsOf(search_results[i]) # {}
        /\ \A i \in 1..(Len(search_results) - 1) :
              ResultDistance(search_results[i]) <= ResultDistance(search_results[i + 1])

\* a search that returned k records of a larger store, the second farther from
\* the query than the first
C6_Witness ==
    /\ k >= 2
    /\ Len(search_results) = k
    /\ Len(store) > k
    /\ \A i \in 1..Len(search_results) : RecordsOf(search_results[i]) # {}
    /\ ResultDistance(search_results[1]) < ResultDistance(search_results[2])

\* where the i-th content starts in the context string, less one
RECURSIVE Offset(_)
Offset(i) ==
    IF i <= 1 THEN 0
    ELSE Offset(i - 1) + Len(search_results[i - 1].page_content) + 1

\* C8: the context string is the contents of the search results in result
\* order, one newline between two consecutive contents and nothing else; it is
\* the empty string when the search returned nothing.
C8_ContextIsJoinedContents ==
    k > 0 =>
        LET n == Len(search_results)
        IN  /\ n = 0 => search_result_text = <<>>
            /\ n > 0 =>
                  /\ Len(search_result_text)
                        = Offset(n) + Len(search_results[n].page_content)
                  /\ \A i \in 1..n :
                        SubSeq(search_result_text, Offset(i) + 1,
                               Offset(i) + Len(search_results[i].page_content))
                            = search_results[i].page_content
                  /\ \A i \in 1..(n - 1) :
                        search_result_text[Offset(i + 1)] = "\n"

\* a context joined from two results of different content, the nearer first
C8_Witness ==
    /\ k >= 2
    /\ Len(search_results) >= 2
    /\ search_results[1].page_content # search_results[2].page_content
    /\ ResultDistance(search_results[1]) < ResultDistance(search_results[2])
    /\ Len(search_result_text) > Len(search_results[1].page_content)

----------------------------------------------------------------------------
(* Properties of split_text                                                *)

\* the configurations the design calls valid
ValidConfiguration == chunk_size > 0 /\ chunk_overlap < chunk_size

\* the contents of the chunks that carry document j's metadata
ChunksOf(j) ==
    LET mine == SelectSeq(splitted_data,
                          LAMBDA c : c.metadata = trimmed_pdf_data[j].metadata)
    IN  [i \in 1..Len(mine) |-> mine[i].page_content]

\* the separator-free pieces of document j
PiecesOf(j) == SplitTextWithRegex(trimmed_pdf_data[j].page_content, separator)

HasSeparator(s) == separator # <<>> /\ \E i \in 1..Len(s) : s[i] = separator[1]

\* C9: after split_text with a valid configuration every chunk is at most
\* chunk_size characters long, unless it holds no separator and is (the
\* stripped text of) one separator-free piece of its document that is itself
\* longer than chunk_size.
C9_ChunkLength ==
    (step = "split" /\ ValidConfiguration) =>
        \A j \in 1..Len(trimmed_pdf_data) :
            \A i \in 1..Len(ChunksOf(j)) :
                LET c == ChunksOf(j)[i]
                IN  \/ Len(c) <= chunk_size
                    \/ /\ ~HasSeparator(c)
                       /\ \E p \in 1..Len(PiecesOf(j)) :
                             /\ Len(PiecesOf(j)[p]) > chunk_size
                             /\ c = Strip(PiecesOf(j)[p])

\* a split with a valid configuration that produced both an oversized chunk
\* and, from the same document, a chunk within the size
C9_Witness ==
    /\ step = "split" /\ ValidConfiguration
    /\ \E i, m \in 1..Len(ChunksOf(1)) :
          /\ Len(ChunksOf(1)[i]) > chunk_size
          /\ Len(ChunksOf(1)[m]) <= chunk_size
          /\ chunk_size >= 2

\* the overlaps two consecutive chunks can have: a suffix of prev that is a
\* prefix of next
Overlaps(prev, next) ==
    {o \in 0..(IF Len(prev) < Len(next) THEN Len(prev) ELSE Len(next)) :
        SubSeq(prev, Len(prev) - o + 1, Len(prev)) = SubSeq(next, 1, o)}

\* every text obtained by concatenating the chunks in order with an overlap
\* removed between each two consecutive ones
RECURSIVE Recon(_, _, _)
Recon(acc, prev, rest) ==
    IF rest = <<>> THEN {acc}
    ELSE LET next == Head(rest)
         IN  UNION {Recon(acc \o SubSeq(next, o + 1, Len(next)), next, Tail(rest)) :
                        o \in Overlaps(prev, next)}

Reconstructions(chunks) == Recon(<<>>, <<>>, chunks)

\* s without its whitespace and separator characters
RECURSIVE Essential(_)
Essential(s) ==
    IF s = <<>> THEN <<>>
    ELSE IF Head(s) \in Whitespace \/ (separator # <<>> /\ Head(s) = separator[1])
         THEN Essential(Tail(s))
         ELSE <<Head(s)>> \o Essential(Tail(s))

\* C10 as stated: for a valid configuration, concatenating a document's chunks
\* in order and removing the overlaps gives back the document's content.
C10_Lossless ==
    (step = "split" /\ ValidConfiguration) =>
        \A j \in 1..Len(trimmed_pdf_data) :
            trimmed_pdf_data[j].page_content \in Reconstructions(ChunksOf(j))

\* C10 amended: for a valid configuration, concatenating a document's chunks
\* in order and removing the overlaps gives back the document's content up to
\* separator and whitespace characters: every other character is kept, in
\* order, none dropped and none added.
C10_LosslessUpToSeparators ==
    (step = "split" /\ ValidConfiguration) =>
        \A j \in 1..Len(trimmed_pdf_data) :
            \E r \in Reconstructions(ChunksOf(j)) :
                Essential(r) = Essential(trimmed_pdf_data[j].page_content)

\* a split into three chunks or more, two of them overlapping, that lost a
\* separator between two chunks
C10_Witness ==
    /\ step = "split" /\ ValidConfiguration
    /\ Len(ChunksOf(1)) >= 3
    /\ chunk_overlap > 0
    /\ separator # <<>>
    /\ \E i \in 1..(Len(ChunksOf(1)) - 1) :
          Overlaps(ChunksOf(1)[i], ChunksOf(1)[i + 1]) # {0}
    /\ trimmed_pdf_data[1].page_content \notin Reconstructions(ChunksOf(1))

----------------------------------------------------------------------------
(* Properties of split_text on configurations the design calls invalid      *)

\* C11: whenever chunk_size <= 0 or chunk_overlap >= chunk_size (the two equal
\* included), split_text fails and produces no chunks: the run never goes on
\* to hold the result of a split.
C11_InvalidConfigurationRejected ==
    (step \in {"split", "split_error"} /\ ~ValidConfiguration) =>
        /\ step = "split_error"
        /\ splitted_data = <<>>

----------------------------------------------------------------------------
(* Properties of the metadata of the chunks                                *)

\* the number of chunks split_text makes of document j
NumChunks(j) ==
    Len(SplitOne(trimmed_pdf_data[j].page_content, separator, chunk_size,
                 chunk_overlap))

\* the document the i-th chunk counted from document j's first comes from
RECURSIVE ParentFrom(_, _)
ParentFrom(i, j) ==
    IF i <= NumChunks(j) THEN j ELSE ParentFrom(i - NumChunks(j), j + 1)

\* the document chunk i of splitted_data comes from
Parent(i) == ParentFrom(i, 1)

\* md holds the allow-listed keys of parent, each with parent's value, and no
\* other key
RestrictedTo(md, parent) ==
    /\ DOMAIN md = {key \in DOMAIN parent : key \in important_metadata}
    /\ \A key \in DOMAIN md : md[key] = parent[key]

\* C12: trimming keeps every document's content and restricts its metadata to
\* the allow-listed keys the document has, values verbatim, no key added; the
\* split copies that metadata unchanged into every chunk of the document.
C12_ChunkMetadataIsTrimmedParent ==
    /\ step \in {"trimmed", "split", "split_error"} =>
          /\ Len(trimmed_pdf_data) = Len(pdf_data)
          /\ \A j \in 1..Len(pdf_data) :
                /\ trimmed_pdf_data[j].page_content = pdf_data[j].page_content
                /\ RestrictedTo(trimmed_pdf_data[j].metadata, pdf_data[j].metadata)
    /\ step = "split" =>
          \A i \in 1..Len(splitted_data) :
              RestrictedTo(splitted_data[i].metadata, pdf_data[Parent(i)].metadata)

\* two documents split, the first into two chunks or more; each lacks an
\* allow-listed key the other has and carries a key that is not allow-listed
C12_Witness ==
    /\ step = "split"
    /\ Len(pdf_data) = 2
    /\ NumChunks(1) >= 2
    /\ \E i \in 1..Len(splitted_data) : Parent(i) = 2
    /\ \A j \in 1..2 :
          /\ important_metadata \ DOMAIN pdf_data[j].metadata # {}
          /\ DOMAIN pdf_data[j].metadata \ important_metadata # {}
          /\ DOMAIN trimmed_pdf_data[j].metadata # {}
    /\ DOMAIN pdf_data[1].metadata # DOMAIN pdf_data[2].metadata

----------------------------------------------------------------------------
(* Properties of the fetching cells                                        *)

\* locator u is not blank
Named(u) == Strip(u) # <<>>

\* the fetch of locator u fails: it is no URL, the request fails, or what
\* comes back is no PDF
FetchFails(u) ==
    /\ Named(u)
    /\ IF EnsureUrl(Strip(u)).raised THEN TRUE
       ELSE responses[EnsureUrl(Strip(u)).url] # "pdf"

\* the documents of the locators of us whose fetch does not fail, in the order
\* of us
RECURSIVE DocumentsOfRemaining(_)
DocumentsOfRemaining(us) ==
    IF us = <<>> THEN <<>>
    ELSE (IF Named(Head(us)) /\ ~FetchFails(Head(us))
          THEN Pages(EnsureUrl(Strip(Head(us))).url)
          ELSE <<>>)
         \o DocumentsOfRemaining(Tail(us))

\* C13: once the fetching cell has run, every locator whose fetch failed is
\* logged and skipped, and pdf_data holds the documents of every remaining
\* locator, in locator order.
C13_PartialFailureTolerant ==
    step \in {"fetched", "fetch_error"} =>
        /\ pdf_data = DocumentsOfRemaining(urls)
        /\ \A i \in 1..Len(urls) :
              FetchFails(urls[i]) =>
                  \E l \in 1..Len(fetch_log) :
                      fetch_log[l].url = EnsureUrl(Strip(urls[i])).url

\* the failures the loop does catch: with every locator a URL and every
\* response a PDF or a failed request, the failed ones are logged and the
\* documents of the others returned in order
RequestFailuresSkipped ==
    ( /\ step \in {"fetched", "fetch_error"}
      /\ \A i \in 1..Len(urls) :
            Named(urls[i]) =>
                /\ ~EnsureUrl(Strip(urls[i])).raised
                /\ responses[EnsureUrl(Strip(urls[i])).url] # "not_pdf" )
    => /\ step = "fetched"
       /\ pdf_data = DocumentsOfRemaining(urls)
       /\ \A i \in 1..Len(urls) :
             FetchFails(urls[i]) =>
                 \E l \in 1..Len(fetch_log) :
                     fetch_log[l] = [line |-> "Failed to fetch URL",
                                     url  |-> EnsureUrl(Strip(urls[i])).url]

----------------------------------------------------------------------------
(* Properties of add_documents_to_vector_store when the gateway fails      *)

\* C14: a failure of the embedding gateway during a call reaches the caller as
\* the gateway's own error, after one attempt, with nothing of the batch
\* stored; a call that returns normally met no failure and stored every
\* candidate that passed the duplicate filter.
C14_GatewayFailurePropagates ==
    LET c == calls[1]
    IN  /\ c.embed_failed =>
              /\ c.pc = "raised"
              /\ c.error = GatewayError
              /\ Len(store) = c.before
        /\ c.pc = "done" =>
              /\ ~c.embed_failed
              /\ \A i \in 1..Len(c.ingest_data) :
                    c.ingest_data[i] \notin DedupSet(c) =>
                        \E j \in 1..Len(Added(c)) : Added(c)[j] = c.ingest_data[i]
              /\ Len(Added(c)) = Cardinality({i \in 1..Len(c.ingest_data) :
                                                c.ingest_data[i] \notin DedupSet(c)})
        /\ c.add_calls <= 1
        /\ c.embed_calls <= c.add_calls
                            + (IF Scans(c.ingest_data, c.allow_duplicates) THEN 1 ELSE 0)

\* the gateway failed in add_documents, after a scan that returned a record,
\* with a candidate that had passed the filter
C14_Witness ==
    LET c == calls[1]
    IN  /\ c.pc = "raised"
        /\ c.embed_failed
        /\ c.add_calls = 1
        /\ c.stored_data # <<>>
        /\ \E i \in 1..Len(c.ingest_data) : c.ingest_data[i] \notin DedupSet(c)

----------------------------------------------------------------------------
(* Properties of the duplicate scan                                        *)

\* C15: with allow_duplicates=false the scan reads at most limit records; with
\* the limit absent or 0 the scan does not fail on it; on an empty store no
\* scan is attempted and the call returns having stored every candidate.
C15_ScanBoundedOrDefault ==
    LET c == calls[1]
    IN  (Ended(c) /\ ~c.allow_duplicates /\ c.ingest_data # <<>>) =>
            /\ c.limit >= 1 => Len(c.stored_data) <= c.limit
            /\ c.limit < 1 => c.error # "ValueError"
            /\ c.before = 0 =>
                  /\ c.pc = "done"
                  /\ c.embed_calls = c.add_calls
                  /\ Added(c) = c.ingest_data

\* number of documents of the list docs equal to p
Occurrences(p, docs) == Cardinality({i \in 1..Len(docs) : docs[i] = p})

\* C16: a call with allow_duplicates=false filters its candidates against the
\* scanned records only: a pair no scanned record holds is stored as many times
\* as the batch has it; a call whose candidates are all filtered out, or whose
\* batch is empty, makes no call of add_documents and leaves the store as it
\* was.
C16_FilterAgainstScannedOnly ==
    LET c == calls[1]
    IN  /\ (Ended(c) /\ ~c.allow_duplicates /\ c.limit >= 1) =>
              /\ c.pc = "done"
              /\ \A i \in 1..Len(c.ingest_data) :
                    c.ingest_data[i] \notin DedupSet(c) =>
                        Occurrences(c.ingest_data[i], Added(c))
                            = Occurrences(c.ingest_data[i], c.ingest_data)
              /\ (\A i \in 1..Len(c.ingest_data) : c.ingest_data[i] \in DedupSet(c)) =>
                    /\ c.add_calls = 0
                    /\ Len(store) = c.before
        /\ (Ended(c) /\ c.ingest_data = <<>>) =>
              /\ c.pc = "done"
              /\ c.add_calls = 0
              /\ Len(store) = c.before

\* what holds of a call that returns: the pair of a batch that holds it twice,
\* no scanned record holding it, is stored twice; nothing is added when every
\* candidate is filtered out
BatchNotFilteredAgainstItself ==
    LET c == calls[1]
    IN  (c.pc = "done" /\ ~c.allow_duplicates) =>
            /\ \A i \in 1..Len(c.ingest_data) :
                  c.ingest_data[i] \notin DedupSet(c) =>
                      Occurrences(c.ingest_data[i], Added(c))
                          = Occurrences(c.ingest_data[i], c.ingest_data)
            /\ (\A i \in 1..Len(c.ingest_data) : c.ingest_data[i] \in DedupSet(c)) =>
                  /\ c.add_calls = 0
                  /\ Len(store) = c.before
====
